---- MODULE Spec2Model ----
(***************************************************************************)
(* Interrupt-management core of the kernel: the GICv2 facade (handler      *)
(* registry, dispatch and diagnostics), its distributor (GICD) and its CPU *)
(* interface (GICC); the vendor controller facade and its pending-mask     *)
(* iterator; and the address lookup of the kernel's virtual memory layout. *)
(*                                                                         *)
(* Representation of hardware registers: a 32-bit enable register is the   *)
(* set of the positions of its one bits (1u32 << k is {k}, | is \cup); an  *)
(* ITARGETSR register is the tuple of its four byte fields                 *)
(* <<Offset0, Offset1, Offset2, Offset3>>.  An array (the handler table, a *)
(* register array) is a record of its length, the value its elements start *)
(* with, and the elements that differ from that value.                     *)
(*                                                                         *)
(* Every core runs one operation at a time; an operation is a sequence of  *)
(* steps (one per register access, lock operation or call), and the steps  *)
(* of different cores interleave.                                          *)
(***************************************************************************)
EXTENDS Integers, Sequences, FiniteSets, TLC

\* ---------------------------------------------------------------- bounds

\* Number of cores of the machine.
NumCores == 2

\* Largest value of TYPER.ITLinesNumber the hardware may report.
MaxITLines == 1

\* Number of calls (of any operation, on any core) in one execution.
MaxCalls == 2

\* Largest number of descriptors of a KernelVirtualLayout.
MaxDescriptors == 3

\* Largest virtual address looked up.
MaxAddr == 13

\* ------------------------------------------------------- program constants

MAX_IRQ_NUMBER == 300

\* Length of SharedRegisterBlock.ISENABLER.
NUM_SHARED_ISENABLER == 31

\* Length of SharedRegisterBlock.ITARGETSR.
NUM_SHARED_ITARGETSR == 248

\* The core that runs the one-time distributor setup.
BOOT_CORE_ID == 0

\* Largest value of the 10-bit InterruptID / EOIINTID fields, plus one.
ID_FIELD_RANGE == 1024

\* Vendor controller: largest local and largest peripheral number.
MAX_LOCAL_IRQ_NUMBER == 3

MAX_PERIPHERAL_IRQ_NUMBER == 63

\* Width of PendingIRQs.bitmask.
MASK_BITS == 64

Cores == 0 .. (NumCores - 1)

NoCore == -1

\* ------------------------------------------------------------- input sets

\* Interrupt numbers handed to enable(): private ones, shared ones, the
\* first and last number of a word, and the largest number.
EnableIrqs == {5, 31, 32, 40, MAX_IRQ_NUMBER}

\* Interrupt numbers of the descriptors handed to register_handler().
RegisterIrqs == {5, 40, MAX_IRQ_NUMBER}

\* (name, handler) pairs of the descriptors handed to register_handler().
DescriptorInputs == { [name |-> "uart", handler |-> "h_uart"],
                      [name |-> "timer", handler |-> "h_timer"] }

\* Values the hardware may return in IAR.InterruptID.
IarInputs == {5, 40, MAX_IRQ_NUMBER, MAX_IRQ_NUMBER + 1, ID_FIELD_RANGE - 1}

\* ------------------------------------------------------------------ state

VARIABLES
    kstate,            \* state_manager(): "init" or "runtime"
    handler_table,     \* GICv2.handler_table: 0..MAX_IRQ_NUMBER -> Option<descriptor>
    table_writer,      \* core inside InitStateLock::write, or NoCore
    TYPER_ITLinesNumber, \* GICD TYPER.ITLinesNumber (read-only hardware value)
    GICD_CTLR,         \* GICD CTLR.Enable
    ISENABLER,         \* shared ISENABLER[0..30]
    ITARGETSR,         \* shared ITARGETSR[0..247]
    banked_ISENABLER,  \* per core: banked ISENABLER
    shared_lock,       \* core holding GICD.shared_registers, or NoCore
    GICC_PMR,          \* per core: PMR.Priority
    GICC_CTLR,         \* per core: CTLR.Enable
    pc,                \* per core: position in the running operation
    local,             \* per core: local variables of the running operation
    ret,               \* per core: result of the last finished operation
    events,            \* per core: register accesses and calls of the last dispatch
    reg_log,           \* finished register_handler calls, in order of completion
    calls,             \* number of calls made so far
    enabled,           \* <<core, number>> of every enable call that has set its bit
    acks,              \* per core: every id read from IAR, in order
    eois,              \* per core: every id written to EOIR, in order
    console,           \* lines of the last print_handler call
    bitmask,           \* PendingIRQs.bitmask: the positions of its one bits
    pending_new,       \* the mask PendingIRQs::new was called with
    yields,            \* results of the next() calls made so far
    periph_table,      \* vendor controller: PeripheralIC handler table
    periph_enabled,    \* vendor controller: enabled peripheral numbers
    layout,            \* KernelVirtualLayout: max_virt_addr_inclusive and inner
    virt_addr,         \* argument of virt_addr_properties
    props              \* result of virt_addr_properties, or NoProps

vars == << kstate, handler_table, table_writer, TYPER_ITLinesNumber, GICD_CTLR,
           ISENABLER, ITARGETSR, banked_ISENABLER, shared_lock, GICC_PMR,
           GICC_CTLR, pc, local, ret, events, reg_log, calls, enabled,
           acks, eois, console, bitmask, pending_new, yields, periph_table,
           periph_enabled, layout, virt_addr, props >>

\* State of the vendor controller, the pending-mask iterator, the memory
\* layout and the console: untouched by the GICv2 driver's register and
\* registry operations.
other_vars == << console, bitmask, pending_new, yields, periph_table,
                periph_enabled, layout, virt_addr, props >>

dispatch_log == << acks, eois >>

gicd_vars == << TYPER_ITLinesNumber, GICD_CTLR, ISENABLER, ITARGETSR,
                banked_ISENABLER, shared_lock >>

gicc_vars == << GICC_PMR, GICC_CTLR >>

registry_vars == << handler_table, table_writer, reg_log >>

\* Arrays: total over 0 .. len-1; elems stores the elements that differ
\* from dflt.
ArrayNew(len, dflt) == [len |-> len, dflt |-> dflt, elems |-> [i \in {} |-> dflt]]

InBounds(a, i) == i \in 0 .. (a.len - 1)

Get(a, i) == IF i \in DOMAIN a.elems THEN a.elems[i] ELSE a.dflt

Put(a, i, v) ==
    LET dom == IF v = a.dflt THEN DOMAIN a.elems \ {i} ELSE DOMAIN a.elems \cup {i}
    IN [a EXCEPT !.elems = [j \in dom |-> IF j = i THEN v ELSE a.elems[j]]]

\* The i-th smallest element of the set of numbers s.
NthSmallest(s, i) == CHOOSE e \in s : Cardinality({x \in s : x < e}) = i - 1

None == [some |-> FALSE]

Some(d) == [some |-> TRUE, number |-> d.number, name |-> d.name, handler |-> d.handler]

NoLocal == [irq |-> 0, name |-> "", handler |-> "", val |-> {}, i |-> 0,
            end |-> 0, mask |-> 0, tag |-> ""]

\* The banked ITARGETSR[0].Offset0 of a core: the core's own target bit.
RECURSIVE Pow2(_)
Pow2(k) == IF k = 0 THEN 1 ELSE 2 * Pow2(k - 1)

BankedTargetMask(c) == Pow2(c)

\* The GICv2 driver after GICv2::new, on a machine that has just booted.
DriverInit ==
    /\ kstate = "init"
    /\ handler_table = ArrayNew(MAX_IRQ_NUMBER + 1, None)
    /\ table_writer = NoCore
    /\ TYPER_ITLinesNumber \in 0 .. MaxITLines
    /\ GICD_CTLR = 0
    /\ ISENABLER = ArrayNew(NUM_SHARED_ISENABLER, {})
    /\ ITARGETSR = ArrayNew(NUM_SHARED_ITARGETSR, <<0, 0, 0, 0>>)
    /\ banked_ISENABLER = [c \in Cores |-> {}]
    /\ shared_lock = NoCore
    /\ GICC_PMR = [c \in Cores |-> 0]
    /\ GICC_CTLR = [c \in Cores |-> 0]
    /\ pc = [c \in Cores |-> "idle"]
    /\ local = [c \in Cores |-> NoLocal]
    /\ ret = [c \in Cores |-> "-"]
    /\ events = [c \in Cores |-> <<>>]
    /\ reg_log = <<>>
    /\ calls = 0
    /\ enabled = {}
    /\ acks = [c \in Cores |-> <<>>]
    /\ eois = [c \in Cores |-> <<>>]
    /\ console = <<>>

\* No pending-mask iterator has been made.
PendingIdle ==
    /\ pending_new = {}
    /\ bitmask = {}
    /\ yields = <<>>

\* The vendor controller after InterruptController::new.
VendorInit ==
    /\ periph_table = ArrayNew(MAX_PERIPHERAL_IRQ_NUMBER + 1, None)
    /\ periph_enabled = {}

\* virt_addr_properties has not returned.
NoProps == [done |-> FALSE]

\* No address lookup is under way.
LayoutIdle ==
    /\ layout = [max_virt_addr_inclusive |-> 0, inner |-> <<>>]
    /\ virt_addr = 0
    /\ props = NoProps

Init == DriverInit /\ PendingIdle /\ VendorInit /\ LayoutIdle

\* ------------------------------------------------------------ kernel state

\* The init sequence ends the init phase, once.
TransitionToRuntime ==
    /\ kstate = "init"
    /\ kstate' = "runtime"
    /\ UNCHANGED << other_vars, dispatch_log, calls, enabled, registry_vars, gicd_vars, gicc_vars,
                    pc, local, ret, events >>

is_init == kstate = "init"

\* A panic halts the core where it happens: the core takes no further step.
Panic(c, msg) ==
    /\ pc' = [pc EXCEPT ![c] = "panic"]
    /\ ret' = [ret EXCEPT ![c] = msg]

\* ---------------------------------------------------------- GICD (gicd.rs)

num_irqs == (TYPER_ITLinesNumber + 1) * 32

\* Exclusive upper end of the slice implemented_itargets_slice returns.
spi_itargetsr_max_index == ((num_irqs - 32) \div 4) - 1

enable_reg_index(irq_num) == irq_num \div 32

\* Mutant: the word index is used as the bit position.
enable_bit_mixup(irq_num) == {enable_reg_index(irq_num)}

enable_bit(irq_num) == {irq_num % 32}

\* Mutant: number 31 is taken as a shared one.
IsPrivateBelow31(irq_num) == irq_num \in 0 .. 30

IsPrivate(irq_num) == irq_num \in 0 .. 31

\* Mutant: the banked word is not skipped.
enable_reg_index_shared_nobias(irq_num) == enable_reg_index(irq_num)

enable_reg_index_shared(irq_num) == enable_reg_index(irq_num) - 1

LockShared(c) ==
    /\ shared_lock = NoCore
    /\ shared_lock' = c

UnlockShared(c) == shared_lock' = NoCore

\* Mutant: every core runs boot_core_init.
InitCallEveryCore(c) ==
    /\ pc[c] = "idle"
    /\ calls < MaxCalls
    /\ calls' = calls + 1
    /\ pc' = [pc EXCEPT ![c] = "bci_assert"]
    /\ local' = [local EXCEPT ![c] = NoLocal]
    /\ ret' = [ret EXCEPT ![c] = "-"]
    /\ UNCHANGED << other_vars, dispatch_log, kstate, enabled, registry_vars, gicd_vars,
                    gicc_vars, events >>

\* DeviceDriver::init: the boot core runs boot_core_init first.
InitCall(c) ==
    /\ pc[c] = "idle"
    /\ calls < MaxCalls
    /\ calls' = calls + 1
    /\ pc' = [pc EXCEPT ![c] = IF BOOT_CORE_ID = c THEN "bci_assert" ELSE "gicc_pmr"]
    /\ local' = [local EXCEPT ![c] = NoLocal]
    /\ ret' = [ret EXCEPT ![c] = "-"]
    /\ UNCHANGED << other_vars, dispatch_log, kstate, enabled, registry_vars, gicd_vars, gicc_vars, events >>

\* Mutant: the init-phase assertion is compiled out.
BootCoreInitAssertSkipped(c) ==
    /\ pc[c] = "bci_assert"
    /\ pc' = [pc EXCEPT ![c] = "bci_mask"]
    /\ UNCHANGED << other_vars, dispatch_log, kstate, enabled, calls, registry_vars, gicd_vars,
                    gicc_vars, local, ret, events >>

\* boot_core_init: assert!(state_manager().is_init()).
BootCoreInitAssert(c) ==
    /\ pc[c] = "bci_assert"
    /\ IF is_init
       THEN /\ pc' = [pc EXCEPT ![c] = "bci_mask"]
            /\ ret' = ret
       ELSE Panic(c, "Only allowed during kernel init phase")
    /\ UNCHANGED << other_vars, dispatch_log, kstate, enabled, calls, registry_vars, gicd_vars, gicc_vars, local, events >>

\* boot_core_init: let mask = self.local_gic_target_mask().
BootCoreInitMask(c) ==
    /\ pc[c] = "bci_mask"
    /\ local' = [local EXCEPT ![c].mask = BankedTargetMask(c)]
    /\ pc' = [pc EXCEPT ![c] = "bci_lock"]
    /\ UNCHANGED << other_vars, dispatch_log, kstate, enabled, calls, registry_vars, gicd_vars, gicc_vars, ret, events >>

\* boot_core_init: self.shared_registers.lock(...).
BootCoreInitLock(c) ==
    /\ pc[c] = "bci_lock"
    /\ LockShared(c)
    /\ pc' = [pc EXCEPT ![c] = "bci_slice"]
    /\ UNCHANGED << other_vars, dispatch_log, kstate, enabled, calls, registry_vars, TYPER_ITLinesNumber, GICD_CTLR, ISENABLER,
                    ITARGETSR, banked_ISENABLER, gicc_vars, local, ret, events >>

\* Mutant: the global enable bit is written before the loop.
BootCoreInitSliceEnableFirst(c) ==
    /\ pc[c] = "bci_slice"
    /\ IF num_irqs >= 36
       THEN /\ local' = [local EXCEPT ![c].i = 0, ![c].end = spi_itargetsr_max_index]
            /\ pc' = [pc EXCEPT ![c] = "bci_loop"]
            /\ ret' = ret
            /\ GICD_CTLR' = 1
       ELSE /\ Panic(c, "assertion failed: self.num_irqs() >= 36")
            /\ local' = local
            /\ GICD_CTLR' = GICD_CTLR
    /\ UNCHANGED << other_vars, dispatch_log, kstate, enabled, calls, registry_vars,
                    TYPER_ITLinesNumber, ISENABLER, ITARGETSR, banked_ISENABLER, shared_lock,
                    gicc_vars, events >>

\* implemented_itargets_slice: assert!(num_irqs() >= 36), then the slice
\* ITARGETSR[0..spi_itargetsr_max_index].
BootCoreInitSlice(c) ==
    /\ pc[c] = "bci_slice"
    /\ IF num_irqs >= 36
       THEN /\ local' = [local EXCEPT ![c].i = 0, ![c].end = spi_itargetsr_max_index]
            /\ pc' = [pc EXCEPT ![c] = "bci_loop"]
            /\ ret' = ret
       ELSE /\ Panic(c, "assertion failed: self.num_irqs() >= 36")
            /\ local' = local
    /\ UNCHANGED << other_vars, dispatch_log, kstate, enabled, calls, registry_vars, gicd_vars, gicc_vars, events >>

\* One iteration of the loop over the slice, or its end.
BootCoreInitLoop(c) ==
    /\ pc[c] = "bci_loop"
    /\ IF local[c].i < local[c].end
       THEN /\ ITARGETSR' = Put(ITARGETSR, local[c].i,
                               << local[c].mask, local[c].mask, local[c].mask, local[c].mask >>)
            /\ local' = [local EXCEPT ![c].i = @ + 1]
            /\ pc' = pc
       ELSE /\ pc' = [pc EXCEPT ![c] = "bci_ctlr"]
            /\ UNCHANGED << ITARGETSR, local >>
    /\ UNCHANGED << other_vars, dispatch_log, kstate, enabled, calls, registry_vars, TYPER_ITLinesNumber, GICD_CTLR, ISENABLER,
                    banked_ISENABLER, shared_lock, gicc_vars, ret, events >>

\* regs.CTLR.write(CTLR::Enable::SET).
BootCoreInitCtlr(c) ==
    /\ pc[c] = "bci_ctlr"
    /\ GICD_CTLR' = 1
    /\ pc' = [pc EXCEPT ![c] = "bci_unlock"]
    /\ UNCHANGED << other_vars, dispatch_log, kstate, enabled, calls, registry_vars, TYPER_ITLinesNumber, ISENABLER, ITARGETSR,
                    banked_ISENABLER, shared_lock, gicc_vars, local, ret, events >>

\* End of the lock closure; boot_core_init returns to init.
BootCoreInitUnlock(c) ==
    /\ pc[c] = "bci_unlock"
    /\ UnlockShared(c)
    /\ pc' = [pc EXCEPT ![c] = "gicc_pmr"]
    /\ local' = [local EXCEPT ![c] = NoLocal]
    /\ UNCHANGED << other_vars, dispatch_log, kstate, enabled, calls, registry_vars, TYPER_ITLinesNumber, GICD_CTLR, ISENABLER,
                    ITARGETSR, banked_ISENABLER, gicc_vars, ret, events >>

\* GICC::priority_accept_all.
PriorityAcceptAll(c) ==
    /\ pc[c] = "gicc_pmr"
    /\ GICC_PMR' = [GICC_PMR EXCEPT ![c] = 255]
    /\ pc' = [pc EXCEPT ![c] = "gicc_enable"]
    /\ UNCHANGED << other_vars, dispatch_log, kstate, enabled, calls, registry_vars, gicd_vars, GICC_CTLR, local, ret, events >>

\* GICC::enable, then init returns Ok(()).
GiccEnable(c) ==
    /\ pc[c] = "gicc_enable"
    /\ GICC_CTLR' = [GICC_CTLR EXCEPT ![c] = 1]
    /\ pc' = [pc EXCEPT ![c] = "idle"]
    /\ ret' = [ret EXCEPT ![c] = "Ok"]
    /\ UNCHANGED << other_vars, dispatch_log, kstate, enabled, calls, registry_vars, gicd_vars, GICC_PMR, local, events >>

\* GICD::enable: the match on irq_num.
EnableCall(c, irq_num) ==
    /\ pc[c] = "idle"
    /\ calls < MaxCalls
    /\ calls' = calls + 1
    /\ local' = [local EXCEPT ![c] = [NoLocal EXCEPT !.irq = irq_num]]
    /\ pc' = [pc EXCEPT ![c] = IF IsPrivate(irq_num) THEN "en_banked_get" ELSE "en_lock"]
    /\ UNCHANGED << other_vars, dispatch_log, kstate, enabled, registry_vars, gicd_vars, gicc_vars, ret, events >>

\* Mutant: the register is not banked, every core reads the boot core's.
EnableBankedGetBootCore(c) ==
    /\ pc[c] = "en_banked_get"
    /\ local' = [local EXCEPT ![c].val = banked_ISENABLER[BOOT_CORE_ID]]
    /\ pc' = [pc EXCEPT ![c] = "en_banked_set"]
    /\ UNCHANGED << other_vars, dispatch_log, kstate, enabled, calls, registry_vars, gicd_vars,
                    gicc_vars, ret, events >>

\* Private: enable_reg.get() on the banked register of the calling core.
EnableBankedGet(c) ==
    /\ pc[c] = "en_banked_get"
    /\ local' = [local EXCEPT ![c].val = banked_ISENABLER[c]]
    /\ pc' = [pc EXCEPT ![c] = "en_banked_set"]
    /\ UNCHANGED << other_vars, dispatch_log, kstate, enabled, calls, registry_vars, gicd_vars, gicc_vars, ret, events >>

\* Private: enable_reg.set(.. | enable_bit).
EnableBankedSet(c) ==
    /\ pc[c] = "en_banked_set"
    /\ banked_ISENABLER' = [banked_ISENABLER EXCEPT ![c] =
                               local[c].val \cup enable_bit(local[c].irq)]
    /\ enabled' = enabled \cup {<< c, local[c].irq >>}
    /\ pc' = [pc EXCEPT ![c] = "idle"]
    /\ local' = [local EXCEPT ![c] = NoLocal]
    /\ UNCHANGED << other_vars, dispatch_log, kstate, calls, registry_vars, TYPER_ITLinesNumber, GICD_CTLR, ISENABLER,
                    ITARGETSR, shared_lock, gicc_vars, ret, events >>

\* Mutant: the shared register is accessed without taking the lock.
EnableLockSkipped(c) ==
    /\ pc[c] = "en_lock"
    /\ pc' = [pc EXCEPT ![c] = "en_shared_get"]
    /\ UNCHANGED << other_vars, dispatch_log, kstate, enabled, calls, registry_vars, gicd_vars, gicc_vars,
                    local, ret, events >>

\* Shared: self.shared_registers.lock(...).
EnableLock(c) ==
    /\ pc[c] = "en_lock"
    /\ LockShared(c)
    /\ pc' = [pc EXCEPT ![c] = "en_shared_get"]
    /\ UNCHANGED << other_vars, dispatch_log, kstate, enabled, calls, registry_vars, TYPER_ITLinesNumber, GICD_CTLR, ISENABLER,
                    ITARGETSR, banked_ISENABLER, gicc_vars, local, ret, events >>

\* Shared: enable_reg.get() on regs.ISENABLER[enable_reg_index_shared].
EnableSharedGet(c) ==
    /\ pc[c] = "en_shared_get"
    /\ IF InBounds(ISENABLER, enable_reg_index_shared(local[c].irq))
       THEN /\ local' = [local EXCEPT ![c].val =
                            Get(ISENABLER, enable_reg_index_shared(local[c].irq))]
            /\ pc' = [pc EXCEPT ![c] = "en_shared_set"]
            /\ ret' = ret
       ELSE /\ Panic(c, "index out of bounds")
            /\ local' = local
    /\ UNCHANGED << other_vars, dispatch_log, kstate, enabled, calls, registry_vars, gicd_vars, gicc_vars, events >>

\* Mutant: the bit is written without the bits read before.
EnableSharedSetOverwrite(c) ==
    /\ pc[c] = "en_shared_set"
    /\ ISENABLER' = Put(ISENABLER, enable_reg_index_shared(local[c].irq),
                        enable_bit(local[c].irq))
    /\ enabled' = enabled \cup {<< c, local[c].irq >>}
    /\ pc' = [pc EXCEPT ![c] = "en_unlock"]
    /\ UNCHANGED << other_vars, dispatch_log, kstate, calls, registry_vars, TYPER_ITLinesNumber,
                    GICD_CTLR, ITARGETSR, banked_ISENABLER, shared_lock, gicc_vars, local,
                    ret, events >>

\* Shared: enable_reg.set(.. | enable_bit).
EnableSharedSet(c) ==
    /\ pc[c] = "en_shared_set"
    /\ ISENABLER' = Put(ISENABLER, enable_reg_index_shared(local[c].irq),
                        local[c].val \cup enable_bit(local[c].irq))
    /\ enabled' = enabled \cup {<< c, local[c].irq >>}
    /\ pc' = [pc EXCEPT ![c] = "en_unlock"]
    /\ UNCHANGED << other_vars, dispatch_log, kstate, calls, registry_vars, TYPER_ITLinesNumber, GICD_CTLR, ITARGETSR,
                    banked_ISENABLER, shared_lock, gicc_vars, local, ret, events >>

\* Shared: end of the lock closure; enable returns.
EnableUnlock(c) ==
    /\ pc[c] = "en_unlock"
    /\ UnlockShared(c)
    /\ pc' = [pc EXCEPT ![c] = "idle"]
    /\ local' = [local EXCEPT ![c] = NoLocal]
    /\ UNCHANGED << other_vars, dispatch_log, kstate, enabled, calls, registry_vars, TYPER_ITLinesNumber, GICD_CTLR, ISENABLER,
                    ITARGETSR, banked_ISENABLER, gicc_vars, ret, events >>

NextGICD ==
    \/ TransitionToRuntime
    \/ \E c \in Cores : InitCall(c)
    \/ \E c \in Cores : BootCoreInitAssert(c)
    \/ \E c \in Cores : BootCoreInitMask(c)
    \/ \E c \in Cores : BootCoreInitLock(c)
    \/ \E c \in Cores : BootCoreInitSlice(c)
    \/ \E c \in Cores : BootCoreInitLoop(c)
    \/ \E c \in Cores : BootCoreInitCtlr(c)
    \/ \E c \in Cores : BootCoreInitUnlock(c)
    \/ \E c \in Cores : PriorityAcceptAll(c)
    \/ \E c \in Cores : GiccEnable(c)
    \/ \E c \in Cores, n \in EnableIrqs : EnableCall(c, n)
    \/ \E c \in Cores : EnableBankedGet(c)
    \/ \E c \in Cores : EnableBankedSet(c)
    \/ \E c \in Cores : EnableLock(c)
    \/ \E c \in Cores : EnableSharedGet(c)
    \/ \E c \in Cores : EnableSharedSet(c)
    \/ \E c \in Cores : EnableUnlock(c)

SpecGICD == Init /\ [][NextGICD]_vars

\* -------------------------------------------- handler registry (gicv2.rs)

\* InitStateLock::write gives its closure exclusive access to the table; it
\* does not look at the kernel state.
LockWrite(c) ==
    /\ table_writer = NoCore
    /\ table_writer' = c

UnlockWrite(c) == table_writer' = NoCore

LogEntry(c, res) ==
    [number |-> local[c].irq, name |-> local[c].name, handler |-> local[c].handler,
     res |-> res]

\* Mutant: the is_some() check never fires.
SlotOccupiedNever(irq_number) == FALSE

SlotOccupied(irq_number) == Get(handler_table, irq_number).some

\* register_handler(irq_handler_descriptor).
RegisterCall(c, n, d) ==
    /\ pc[c] = "idle"
    /\ calls < MaxCalls
    /\ calls' = calls + 1
    /\ local' = [local EXCEPT ![c] =
                   [NoLocal EXCEPT !.irq = n, !.name = d.name, !.handler = d.handler]]
    /\ ret' = [ret EXCEPT ![c] = "-"]
    /\ pc' = [pc EXCEPT ![c] = "reg_write"]
    /\ UNCHANGED << other_vars, dispatch_log, kstate, enabled, registry_vars, gicd_vars, gicc_vars, events >>

\* Mutant: the closure runs without exclusive access to the table.
RegisterWriteNoLock(c) ==
    /\ pc[c] = "reg_write"
    /\ pc' = [pc EXCEPT ![c] = "reg_check"]
    /\ UNCHANGED << other_vars, dispatch_log, kstate, enabled, calls, registry_vars, gicd_vars,
                    gicc_vars, local, ret, events >>

\* self.handler_table.write(|table| ...).
RegisterWrite(c) ==
    /\ pc[c] = "reg_write"
    /\ LockWrite(c)
    /\ pc' = [pc EXCEPT ![c] = "reg_check"]
    /\ UNCHANGED << other_vars, dispatch_log, kstate, enabled, calls, handler_table, reg_log, gicd_vars, gicc_vars,
                    local, ret, events >>

\* if table[irq_number].is_some() { return Err(..) }.
RegisterCheck(c) ==
    /\ pc[c] = "reg_check"
    /\ IF SlotOccupied(local[c].irq)
       THEN /\ ret' = [ret EXCEPT ![c] = "IRQ handler already registered"]
            /\ reg_log' = Append(reg_log, LogEntry(c, "Err"))
            /\ UnlockWrite(c)
            /\ local' = [local EXCEPT ![c] = NoLocal]
            /\ pc' = [pc EXCEPT ![c] = "idle"]
       ELSE /\ pc' = [pc EXCEPT ![c] = "reg_store"]
            /\ UNCHANGED << ret, reg_log, table_writer, local >>
    /\ UNCHANGED << other_vars, dispatch_log, kstate, enabled, calls, handler_table, gicd_vars, gicc_vars, events >>

\* table[irq_number] = Some(irq_handler_descriptor); Ok(()).
RegisterStore(c) ==
    /\ pc[c] = "reg_store"
    /\ handler_table' = Put(handler_table, local[c].irq,
                           Some([number |-> local[c].irq, name |-> local[c].name,
                                 handler |-> local[c].handler]))
    /\ ret' = [ret EXCEPT ![c] = "Ok"]
    /\ reg_log' = Append(reg_log, LogEntry(c, "Ok"))
    /\ UnlockWrite(c)
    /\ local' = [local EXCEPT ![c] = NoLocal]
    /\ pc' = [pc EXCEPT ![c] = "idle"]
    /\ UNCHANGED << other_vars, dispatch_log, kstate, enabled, calls, gicd_vars, gicc_vars, events >>

\* ------------------------------------------------------ dispatch (gicv2.rs)

Event(op, id, arg) == [op |-> op, id |-> id, arg |-> arg]

\* Mutant: an 8-bit id field.
EoiFieldValue8(irq_number) == irq_number % 256

\* The value EOIINTID.val(irq_number) puts into the 10-bit field.
EoiFieldValue(irq_number) == irq_number % ID_FIELD_RANGE

\* Mutant: only the architectural spurious id is filtered.
IsSpuriousOnly1023(irq_number) == irq_number = ID_FIELD_RANGE - 1

\* Mutant: the largest valid number is taken as spurious too.
IsSpuriousFromMax(irq_number) == irq_number >= MAX_IRQ_NUMBER

IsSpurious(irq_number) == irq_number > MAX_IRQ_NUMBER

\* handle_pending_irqs: let irq_number = self.gicc.pending_irq_number(ic).
HandlePendingIrqs(c, id) ==
    /\ pc[c] = "idle"
    /\ calls < MaxCalls
    /\ calls' = calls + 1
    /\ local' = [local EXCEPT ![c] = [NoLocal EXCEPT !.irq = id]]
    /\ events' = [events EXCEPT ![c] = << Event("ack", id, "") >>]
    /\ acks' = [acks EXCEPT ![c] = Append(@, id)]
    /\ pc' = [pc EXCEPT ![c] = "hp_guard"]
    /\ UNCHANGED << other_vars, eois, kstate, enabled, registry_vars, gicd_vars, gicc_vars, ret >>

\* Guard against spurious interrupts.
SpuriousGuard(c) ==
    /\ pc[c] = "hp_guard"
    /\ IF IsSpurious(local[c].irq)
       THEN /\ events' = [events EXCEPT ![c] = Append(@, Event("return", local[c].irq, ""))]
            /\ local' = [local EXCEPT ![c] = NoLocal]
            /\ pc' = [pc EXCEPT ![c] = "idle"]
       ELSE /\ pc' = [pc EXCEPT ![c] = "hp_read"]
            /\ UNCHANGED << events, local >>
    /\ UNCHANGED << other_vars, dispatch_log, kstate, enabled, calls, registry_vars, gicd_vars, gicc_vars, ret >>

\* Mutant: an empty slot is skipped and the interrupt completed.
NoHandlerSkip(c) ==
    /\ pc' = [pc EXCEPT ![c] = "hp_eoi"]
    /\ ret' = ret
    /\ local' = local

\* None => panic!("No handler registered for IRQ {}", irq_number).
NoHandler(c) ==
    /\ Panic(c, "No handler registered for IRQ")
    /\ local' = local

\* self.handler_table.read(|table| match table[irq_number] ...): panic on
\* None, call descriptor.handler().handle() on Some.
HandlerLookup(c) ==
    /\ pc[c] = "hp_read"
    /\ IF ~ InBounds(handler_table, local[c].irq)
       THEN /\ events' = [events EXCEPT ![c] =
                            Append(@, Event("read", local[c].irq, "out of bounds"))]
            /\ Panic(c, "index out of bounds")
            /\ local' = local
       ELSE LET slot == Get(handler_table, local[c].irq) IN
            IF slot.some
            THEN /\ events' = [events EXCEPT ![c] =
                                 @ \o << Event("read", local[c].irq, "Some"),
                                         Event("call", local[c].irq, slot.handler) >>]
                 /\ local' = [local EXCEPT ![c].handler = slot.handler,
                                           ![c].name = slot.name]
                 /\ pc' = [pc EXCEPT ![c] = "hp_handle"]
                 /\ ret' = ret
            ELSE /\ events' = [events EXCEPT ![c] =
                                 Append(@, Event("read", local[c].irq, "None"))]
                 /\ NoHandler(c)
    /\ UNCHANGED << other_vars, dispatch_log, kstate, enabled, calls, registry_vars, gicd_vars, gicc_vars >>

\* Mutant: the handler's result is dropped.
AfterHandlerIgnoreErr(c, res) ==
    /\ pc' = [pc EXCEPT ![c] = "hp_eoi"]
    /\ ret' = ret

\* What handle_pending_irqs does with the handler's result:
\* .expect("Error handling IRQ").
AfterHandler(c, res) ==
    IF res = "Ok"
    THEN /\ pc' = [pc EXCEPT ![c] = "hp_eoi"]
         /\ ret' = ret
    ELSE Panic(c, "Error handling IRQ")

\* The handler returns Ok or Err.
HandlerReturn(c, res) ==
    /\ pc[c] = "hp_handle"
    /\ events' = [events EXCEPT ![c] = Append(@, Event("handled", local[c].irq, res))]
    /\ local' = local
    /\ AfterHandler(c, res)
    /\ UNCHANGED << other_vars, dispatch_log, kstate, enabled, calls, registry_vars, gicd_vars, gicc_vars >>

\* self.gicc.mark_comleted(irq_number as u32, ic); the call returns.
MarkCompleted(c) ==
    /\ pc[c] = "hp_eoi"
    /\ events' = [events EXCEPT ![c] =
                    @ \o << Event("eoi", EoiFieldValue(local[c].irq), ""),
                            Event("return", local[c].irq, "") >>]
    /\ eois' = [eois EXCEPT ![c] = Append(@, EoiFieldValue(local[c].irq))]
    /\ local' = [local EXCEPT ![c] = NoLocal]
    /\ pc' = [pc EXCEPT ![c] = "idle"]
    /\ UNCHANGED << other_vars, acks, kstate, enabled, calls, registry_vars, gicd_vars, gicc_vars, ret >>

NextIRQ ==
    \/ TransitionToRuntime
    \/ \E c \in Cores, n \in RegisterIrqs, d \in DescriptorInputs : RegisterCall(c, n, d)
    \/ \E c \in Cores : RegisterWrite(c)
    \/ \E c \in Cores : RegisterCheck(c)
    \/ \E c \in Cores : RegisterStore(c)
    \/ \E c \in Cores, id \in IarInputs : HandlePendingIrqs(c, id)
    \/ \E c \in Cores : SpuriousGuard(c)
    \/ \E c \in Cores : HandlerLookup(c)
    \/ \E c \in Cores, res \in {"Ok", "Err"} : HandlerReturn(c, res)
    \/ \E c \in Cores : MarkCompleted(c)

\* The registry and dispatch do not read the distributor: one hardware
\* configuration is enough.
InitIRQ == Init /\ TYPER_ITLinesNumber = MaxITLines

SpecIRQ == InitIRQ /\ [][NextIRQ]_vars

\* ------------------------------------------------------------------ claims

\* ------------- pending-mask iterator (bcm2xxx_interrupt_controller.rs)

\* A u64 is the set of the positions of its one bits, 0 .. MASK_BITS-1.
AllBits == 0 .. (MASK_BITS - 1)

\* Bit positions the masks handed to PendingIRQs::new are made of: both
\* ends of both 32-bit halves, and the bits of the mask 0b1010.
PendingBitInputs == {0, 1, 3, 15, 31, 32, MASK_BITS - 2, MASK_BITS - 1}

PendingMasks == SUBSET PendingBitInputs

SomeNum(n) == [some |-> TRUE, val |-> n]

\* Mutant: the position of the highest one bit.
highest_one(m) ==
    IF m = {} THEN MASK_BITS ELSE CHOOSE k \in m : \A j \in m : j <= k

\* u64::trailing_zeros: the number of zero bits below the lowest one bit.
trailing_zeros(m) ==
    CHOOSE k \in 0 .. MASK_BITS :
        /\ \A j \in 0 .. (k - 1) : j \notin m
        /\ k = MASK_BITS \/ k \in m

\* u64::wrapping_sub(1): the borrow turns the zero bits below the lowest
\* one bit into ones and clears that bit; 0 wraps to all ones.
wrapping_sub_1(m) ==
    LET k == trailing_zeros(m)
    IN IF k = MASK_BITS THEN AllBits ELSE (m \ {k}) \cup (0 .. (k - 1))

BitAnd(a, b) == a \cap b

\* PendingIRQs::new(bitmask).
PendingNew ==
    /\ pending_new \in PendingMasks
    /\ bitmask = pending_new
    /\ yields = <<>>

InitPending ==
    /\ DriverInit /\ TYPER_ITLinesNumber = MaxITLines
    /\ VendorInit /\ LayoutIdle /\ PendingNew

\* Iterator::next for PendingIRQs.  The caller stops calling after MaxCalls
\* results of None.
PendingNext ==
    /\ Cardinality({i \in DOMAIN yields : yields[i] = None}) < MaxCalls
    /\ IF bitmask = {}
       THEN /\ yields' = Append(yields, None)
            /\ bitmask' = bitmask
       ELSE /\ yields' = Append(yields, SomeNum(trailing_zeros(bitmask)))
            /\ bitmask' = BitAnd(bitmask, wrapping_sub_1(bitmask))
    /\ UNCHANGED << pending_new, console, periph_table, periph_enabled, layout, virt_addr,
                    props, dispatch_log, kstate, enabled, calls, registry_vars, gicd_vars,
                    gicc_vars, pc, local, ret, events >>

NextPending == PendingNext

SpecPending == InitPending /\ [][NextPending]_vars

\* ------------------------------------------------ print_handler (gicv2.rs)

\* Number of leading table entries print_handler skips.
PRINT_SKIP == 32

HeaderLine == << "Peripheral handler:" >>

\* info!("{: >3}. {}", number, name).
HandlerLine(number, name) == << number, name >>

\* Enumeration indices of the loop over table.iter().skip(32).enumerate()
\* whose element is Some.
PrintedIndices(table) ==
    {i \in 0 .. (table.len - PRINT_SKIP - 1) : Get(table, i + PRINT_SKIP).some}

\* The lines the loop prints, in the order of the iteration.
HandlerLines(table) ==
    [k \in 1 .. Cardinality(PrintedIndices(table)) |->
        LET i == NthSmallest(PrintedIndices(table), k)
        IN HandlerLine(i + 32, Get(table, i + PRINT_SKIP).name)]

\* Mutant: the loop takes the descriptors out of the slots it prints.
PrintHandlerTaking(c) ==
    /\ pc[c] = "idle"
    /\ calls < MaxCalls
    /\ calls' = calls + 1
    /\ console' = << HeaderLine >> \o HandlerLines(handler_table)
    /\ handler_table' =
          [handler_table EXCEPT !.elems =
              [j \in {k \in DOMAIN handler_table.elems : k < PRINT_SKIP} |->
                  handler_table.elems[j]]]
    /\ UNCHANGED << bitmask, pending_new, yields, periph_table, periph_enabled, layout,
                    virt_addr, props, dispatch_log, kstate, enabled, table_writer, reg_log,
                    gicd_vars, gicc_vars, pc, local, ret, events >>

\* print_handler: the header, then the loop inside handler_table.read.
PrintHandler(c) ==
    /\ pc[c] = "idle"
    /\ calls < MaxCalls
    /\ calls' = calls + 1
    /\ console' = << HeaderLine >> \o HandlerLines(handler_table)
    /\ UNCHANGED << bitmask, pending_new, yields, periph_table, periph_enabled, layout,
                    virt_addr, props, dispatch_log, kstate, enabled, registry_vars,
                    gicd_vars, gicc_vars, pc, local, ret, events >>

NextPrint ==
    \/ \E c \in Cores, n \in RegisterIrqs, d \in DescriptorInputs : RegisterCall(c, n, d)
    \/ \E c \in Cores : RegisterWrite(c)
    \/ \E c \in Cores : RegisterCheck(c)
    \/ \E c \in Cores : RegisterStore(c)
    \/ \E c \in Cores : PrintHandler(c)

SpecPrint == InitIRQ /\ [][NextPrint]_vars

\* ------------- vendor controller (bcm2xxx_interrupt_controller.rs)

\* IRQNumber::Local(n) and IRQNumber::Peripheral(n).
LocalIRQ(n) == [tag |-> "Local", n |-> n]

PeripheralIRQ(n) == [tag |-> "Peripheral", n |-> n]

\* Numbers handed to the vendor controller: the smallest and the largest
\* one of either kind.
VendorIrqs == {LocalIRQ(0), LocalIRQ(MAX_LOCAL_IRQ_NUMBER),
               PeripheralIRQ(0), PeripheralIRQ(MAX_PERIPHERAL_IRQ_NUMBER)}

\* Mutant: the local branch does nothing and reports success.
UnimplementedLocalNoOp(c) ==
    /\ pc' = [pc EXCEPT ![c] = "idle"]
    /\ ret' = [ret EXCEPT ![c] = "Ok"]

\* unimplemented!("Local IRQ controller not implemented.").
UnimplementedLocal(c) ==
    Panic(c, "not implemented: Local IRQ controller not implemented.")

\* PeripheralIC::register_handler: the registry contract of the facade.
PeriphRegisterHandler(c) ==
    /\ IF Get(periph_table, local[c].irq).some
       THEN /\ ret' = [ret EXCEPT ![c] = "IRQ handler already registered"]
            /\ periph_table' = periph_table
       ELSE /\ ret' = [ret EXCEPT ![c] = "Ok"]
            /\ periph_table' = Put(periph_table, local[c].irq,
                                   Some([number |-> local[c].irq, name |-> local[c].name,
                                         handler |-> local[c].handler]))
    /\ pc' = [pc EXCEPT ![c] = "idle"]

\* PeripheralIC::enable: a direct bit set in an enable register.
PeriphEnable(c) ==
    /\ periph_enabled' = periph_enabled \cup {local[c].irq}
    /\ pc' = [pc EXCEPT ![c] = "idle"]

\* InterruptController::register_handler(irq_handler_descriptor).
VendorRegisterCall(c, irq, d) ==
    /\ pc[c] = "idle"
    /\ calls < MaxCalls
    /\ calls' = calls + 1
    /\ local' = [local EXCEPT ![c] =
                   [NoLocal EXCEPT !.irq = irq.n, !.tag = irq.tag, !.name = d.name,
                                   !.handler = d.handler]]
    /\ ret' = [ret EXCEPT ![c] = "-"]
    /\ pc' = [pc EXCEPT ![c] = "v_reg_match"]
    /\ UNCHANGED << other_vars, dispatch_log, kstate, enabled, registry_vars, gicd_vars,
                    gicc_vars, events >>

\* match irq_handler_descriptor.number().
VendorRegisterMatch(c) ==
    /\ pc[c] = "v_reg_match"
    /\ IF local[c].tag = "Local"
       THEN /\ UnimplementedLocal(c)
            /\ periph_table' = periph_table
       ELSE PeriphRegisterHandler(c)
    /\ UNCHANGED << console, bitmask, pending_new, yields, periph_enabled, layout, virt_addr,
                    props, dispatch_log, kstate, enabled, calls, registry_vars, gicd_vars,
                    gicc_vars, local, events >>

\* InterruptController::enable(irq).
VendorEnableCall(c, irq) ==
    /\ pc[c] = "idle"
    /\ calls < MaxCalls
    /\ calls' = calls + 1
    /\ local' = [local EXCEPT ![c] = [NoLocal EXCEPT !.irq = irq.n, !.tag = irq.tag]]
    /\ ret' = [ret EXCEPT ![c] = "-"]
    /\ pc' = [pc EXCEPT ![c] = "v_en_match"]
    /\ UNCHANGED << other_vars, dispatch_log, kstate, enabled, registry_vars, gicd_vars,
                    gicc_vars, events >>

\* match irq.
VendorEnableMatch(c) ==
    /\ pc[c] = "v_en_match"
    /\ IF local[c].tag = "Local"
       THEN /\ UnimplementedLocal(c)
            /\ periph_enabled' = periph_enabled
       ELSE /\ PeriphEnable(c)
            /\ ret' = ret
    /\ UNCHANGED << console, bitmask, pending_new, yields, periph_table, layout, virt_addr,
                    props, dispatch_log, kstate, enabled, calls, registry_vars, gicd_vars,
                    gicc_vars, local, events >>

NextVendor ==
    \/ \E c \in Cores, irq \in VendorIrqs, d \in DescriptorInputs : VendorRegisterCall(c, irq, d)
    \/ \E c \in Cores : VendorRegisterMatch(c)
    \/ \E c \in Cores, irq \in VendorIrqs : VendorEnableCall(c, irq)
    \/ \E c \in Cores : VendorEnableMatch(c)

SpecVendor == InitIRQ /\ [][NextVendor]_vars

\* ----------------------------------------- memory layout (memory/mmu.rs)

Identity == [kind |-> "Identity"]

Offset(a) == [kind |-> "Offset", a |-> a]

AttributeFields(mem, acc, xn) ==
    [mem_attributes |-> mem, acc_perms |-> acc, execute_never |-> xn]

\* impl Default for AttributeFields.
DefaultAttributeFields == AttributeFields("CacheableDRAM", "ReadWrite", TRUE)

TranslationDescriptor(name, start, end, translation, attrs) ==
    [name |-> name, start |-> start, end |-> end,
     physical_range_translation |-> translation, attribute_fields |-> attrs]

\* Descriptors the layouts are made of: two that overlap in 4..5, two that
\* overlap in 8..9, identity and offset translations, and an empty range.
DescriptorPool ==
    { TranslationDescriptor("code", 2, 5, Identity,
                            AttributeFields("CacheableDRAM", "ReadOnly", FALSE)),
      TranslationDescriptor("mmio", 4, 9, Offset(20),
                            AttributeFields("Device", "ReadWrite", TRUE)),
      TranslationDescriptor("remap", 8, 11, Offset(3),
                            AttributeFields("CacheableDRAM", "ReadWrite", FALSE)),
      TranslationDescriptor("empty", 7, 6, Identity,
                            AttributeFields("Device", "ReadOnly", TRUE)) }

\* Sequences of at most MaxDescriptors different descriptors of the pool.
LayoutInners ==
    UNION { {q \in [1 .. n -> DescriptorPool] : \A i, j \in 1 .. n : i # j => q[i] # q[j]}
            : n \in 0 .. MaxDescriptors }

\* Values of max_virt_addr_inclusive: below and above the last range end.
MaxVirtAddrInputs == {10, 12}

\* Mutant: the range is taken as half-open.
ContainsExclusive(d, x) == d.start <= x /\ x < d.end

\* RangeInclusive::contains.
Contains(d, x) == d.start <= x /\ x <= d.end

\* The match on physical_range_translation.
OutputAddr(d, va) ==
    IF d.physical_range_translation.kind = "Identity"
    THEN va
    ELSE d.physical_range_translation.a + (va - d.start)

PropsOk(output_addr, attrs) ==
    [done |-> TRUE, ok |-> TRUE, output_addr |-> output_addr, attribute_fields |-> attrs]

PropsErr(msg) == [done |-> TRUE, ok |-> FALSE, err |-> msg]

\* The loop over self.inner.iter(), from the k-th descriptor on, and the
\* default after it.
RECURSIVE ScanInner(_, _, _)
ScanInner(inner, k, va) ==
    IF k > Len(inner)
    THEN PropsOk(va, DefaultAttributeFields)
    ELSE IF Contains(inner[k], va)
         THEN PropsOk(OutputAddr(inner[k], va), inner[k].attribute_fields)
         ELSE ScanInner(inner, k + 1, va)

virt_addr_properties(l, va) ==
    IF va > l.max_virt_addr_inclusive
    THEN PropsErr("Address out of range")
    ELSE ScanInner(l.inner, 1, va)

\* KernelVirtualLayout::new(max, layout), and the address to look up.
InitLayout ==
    /\ DriverInit /\ TYPER_ITLinesNumber = MaxITLines
    /\ PendingIdle /\ VendorInit
    /\ layout \in [max_virt_addr_inclusive : MaxVirtAddrInputs, inner : LayoutInners]
    /\ virt_addr \in 0 .. MaxAddr
    /\ props = NoProps

VirtAddrProperties ==
    /\ props = NoProps
    /\ props' = virt_addr_properties(layout, virt_addr)
    /\ UNCHANGED << console, bitmask, pending_new, yields, periph_table, periph_enabled,
                    layout, virt_addr, dispatch_log, kstate, enabled, calls, registry_vars,
                    gicd_vars, gicc_vars, pc, local, ret, events >>

NextLayout == VirtAddrProperties

SpecLayout == InitLayout /\ [][NextLayout]_vars

\* ------------------------------------------- dispatch after kernel init

\* The descriptors kernel init has registered before interrupts are taken.
BootDescriptors ==
    << [number |-> 40, name |-> "uart", handler |-> "h_uart"],
       [number |-> MAX_IRQ_NUMBER, name |-> "timer", handler |-> "h_timer"] >>

\* The driver once kernel init has registered BootDescriptors, one after
\* the other, and has ended the init phase.
InitDispatch ==
    /\ kstate = "runtime"
    /\ handler_table = Put(Put(ArrayNew(MAX_IRQ_NUMBER + 1, None),
                               BootDescriptors[1].number, Some(BootDescriptors[1])),
                           BootDescriptors[2].number, Some(BootDescriptors[2]))
    /\ table_writer = NoCore
    /\ TYPER_ITLinesNumber = MaxITLines
    /\ GICD_CTLR = 0
    /\ ISENABLER = ArrayNew(NUM_SHARED_ISENABLER, {})
    /\ ITARGETSR = ArrayNew(NUM_SHARED_ITARGETSR, <<0, 0, 0, 0>>)
    /\ banked_ISENABLER = [c \in Cores |-> {}]
    /\ shared_lock = NoCore
    /\ GICC_PMR = [c \in Cores |-> 0]
    /\ GICC_CTLR = [c \in Cores |-> 0]
    /\ pc = [c \in Cores |-> "idle"]
    /\ local = [c \in Cores |-> NoLocal]
    /\ ret = [c \in Cores |-> "Ok"]
    /\ events = [c \in Cores |-> <<>>]
    /\ reg_log = [i \in 1 .. 2 |->
                    [number |-> BootDescriptors[i].number, name |-> BootDescriptors[i].name,
                     handler |-> BootDescriptors[i].handler, res |-> "Ok"]]
    /\ calls = 0
    /\ enabled = {}
    /\ acks = [c \in Cores |-> <<>>]
    /\ eois = [c \in Cores |-> <<>>]
    /\ console = <<>>
    /\ PendingIdle /\ VendorInit /\ LayoutIdle

NextDispatch ==
    \/ \E c \in Cores, id \in IarInputs : HandlePendingIrqs(c, id)
    \/ \E c \in Cores : SpuriousGuard(c)
    \/ \E c \in Cores : HandlerLookup(c)
    \/ \E c \in Cores, res \in {"Ok", "Err"} : HandlerReturn(c, res)
    \/ \E c \in Cores : MarkCompleted(c)

SpecDispatch == InitDispatch /\ [][NextDispatch]_vars

\* ----------------------------------------------- table and register indices

\* The operations of the GICv2 driver that index the handler table or the
\* shared enable registers: register_handler, handle_pending_irqs, enable.
\* None of them reads the kernel state.
NextIndex ==
    \/ \E c \in Cores, n \in RegisterIrqs, d \in DescriptorInputs : RegisterCall(c, n, d)
    \/ \E c \in Cores : RegisterWrite(c)
    \/ \E c \in Cores : RegisterCheck(c)
    \/ \E c \in Cores : RegisterStore(c)
    \/ \E c \in Cores, id \in IarInputs : HandlePendingIrqs(c, id)
    \/ \E c \in Cores : SpuriousGuard(c)
    \/ \E c \in Cores : HandlerLookup(c)
    \/ \E c \in Cores, res \in {"Ok", "Err"} : HandlerReturn(c, res)
    \/ \E c \in Cores : MarkCompleted(c)
    \/ \E c \in Cores, n \in EnableIrqs : EnableCall(c, n)
    \/ \E c \in Cores : EnableBankedGet(c)
    \/ \E c \in Cores : EnableBankedSet(c)
    \/ \E c \in Cores : EnableLock(c)
    \/ \E c \in Cores : EnableSharedGet(c)
    \/ \E c \in Cores : EnableSharedSet(c)
    \/ \E c \in Cores : EnableUnlock(c)

SpecIndex == InitIRQ /\ [][NextIndex]_vars

\* ------------------------------------------- the IRQManager operations

\* register_handler, enable, handle_pending_irqs and print_handler of the
\* GICv2 driver, on every core.
NextManager ==
    \/ NextIndex
    \/ \E c \in Cores : PrintHandler(c)

SpecManager == InitIRQ /\ [][NextManager]_vars

\* ------------------------------------ enable and dispatch after kernel init

\* enable and handle_pending_irqs on every core, once kernel init has
\* registered BootDescriptors.
NextPerCore ==
    \/ NextDispatch
    \/ \E c \in Cores, n \in EnableIrqs : EnableCall(c, n)
    \/ \E c \in Cores : EnableBankedGet(c)
    \/ \E c \in Cores : EnableBankedSet(c)
    \/ \E c \in Cores : EnableLock(c)
    \/ \E c \in Cores : EnableSharedGet(c)
    \/ \E c \in Cores : EnableSharedSet(c)
    \/ \E c \in Cores : EnableUnlock(c)

SpecPerCore == InitDispatch /\ [][NextPerCore]_vars

\* ------------------------------------------------------------ enable alone

\* Sequences of enable calls, on every core.
NextEnable ==
    \/ \E c \in Cores, n \in EnableIrqs : EnableCall(c, n)
    \/ \E c \in Cores : EnableBankedGet(c)
    \/ \E c \in Cores : EnableBankedSet(c)
    \/ \E c \in Cores : EnableLock(c)
    \/ \E c \in Cores : EnableSharedGet(c)
    \/ \E c \in Cores : EnableSharedSet(c)
    \/ \E c \in Cores : EnableUnlock(c)

SpecEnable == InitIRQ /\ [][NextEnable]_vars

\* ------------------------------------------- bring-up during the init phase

\* init on every core and enable calls from the other contexts, with the
\* kernel staying in the init phase.
NextBoot ==
    \/ \E c \in Cores : InitCall(c)
    \/ \E c \in Cores : BootCoreInitAssert(c)
    \/ \E c \in Cores : BootCoreInitMask(c)
    \/ \E c \in Cores : BootCoreInitLock(c)
    \/ \E c \in Cores : BootCoreInitSlice(c)
    \/ \E c \in Cores : BootCoreInitLoop(c)
    \/ \E c \in Cores : BootCoreInitCtlr(c)
    \/ \E c \in Cores : BootCoreInitUnlock(c)
    \/ \E c \in Cores : PriorityAcceptAll(c)
    \/ \E c \in Cores : GiccEnable(c)
    \/ \E c \in Cores, n \in EnableIrqs : EnableCall(c, n)
    \/ \E c \in Cores : EnableBankedGet(c)
    \/ \E c \in Cores : EnableBankedSet(c)
    \/ \E c \in Cores : EnableLock(c)
    \/ \E c \in Cores : EnableSharedGet(c)
    \/ \E c \in Cores : EnableSharedSet(c)
    \/ \E c \in Cores : EnableUnlock(c)

SpecBoot == Init /\ [][NextBoot]_vars

\* Index of the first finished registration for number n, or 0.
FirstRegistration(n) ==
    LET idx == {i \in DOMAIN reg_log : reg_log[i].number = n}
    IN IF idx = {} THEN 0 ELSE CHOOSE i \in idx : \A j \in idx : i <= j

\* C1: the first registration for a number succeeds and stores its
\* descriptor; every later registration for that number returns the error,
\* and the slot keeps the first descriptor; a slot nobody registered stays
\* empty.
C1_RegisterOnce ==
    /\ \A i \in DOMAIN reg_log :
          reg_log[i].res = (IF FirstRegistration(reg_log[i].number) = i THEN "Ok" ELSE "Err")
    /\ \A n \in 0 .. MAX_IRQ_NUMBER :
          LET f == FirstRegistration(n) IN
          IF f = 0
          THEN Get(handler_table, n) = None
          ELSE Get(handler_table, n) = Some([number |-> n, name |-> reg_log[f].name,
                                        handler |-> reg_log[f].handler])

C1_Witness ==
    \E i, j \in DOMAIN reg_log :
        /\ i < j
        /\ reg_log[i].number = reg_log[j].number
        /\ reg_log[i].name # reg_log[j].name
        /\ reg_log[j].res = "Err"

\* The last dispatch of core c has returned to its caller.
Returned(c) == events[c] # <<>> /\ events[c][Len(events[c])].op = "return"

\* The id the last dispatch of core c read from IAR.
AckedId(c) == events[c][1].id

\* C2: a dispatch that returns for a number <= MAX_IRQ_NUMBER did one
\* acknowledge read, then called exactly the handler registered for that
\* number, then wrote that number to EOIR once, in this order.
C2_DispatchOrder ==
    \A c \in Cores :
        (Returned(c) /\ AckedId(c) <= MAX_IRQ_NUMBER) =>
            /\ Get(handler_table, AckedId(c)).some
            /\ events[c] = << Event("ack", AckedId(c), ""),
                              Event("read", AckedId(c), "Some"),
                              Event("call", AckedId(c), Get(handler_table, AckedId(c)).handler),
                              Event("handled", AckedId(c), "Ok"),
                              Event("eoi", AckedId(c), ""),
                              Event("return", AckedId(c), "") >>

C2_Witness ==
    \E c \in Cores : Returned(c) /\ AckedId(c) = MAX_IRQ_NUMBER

\* C3: a dispatch whose acknowledged number is above MAX_IRQ_NUMBER neither
\* reads the registry, nor calls a handler, nor writes EOIR, and it returns.
C3_SpuriousShortCircuit ==
    \A c \in Cores :
        (events[c] # <<>> /\ AckedId(c) > MAX_IRQ_NUMBER) =>
            /\ \A i \in DOMAIN events[c] : events[c][i].op \in {"ack", "return"}
            /\ pc[c] # "panic"
            /\ pc[c] # "hp_guard" => events[c] = << Event("ack", AckedId(c), ""),
                                                   Event("return", AckedId(c), "") >>

C3_Witness ==
    \E c \in Cores : Returned(c) /\ AckedId(c) = MAX_IRQ_NUMBER + 1

\* C4: a dispatch that finds the slot of its acknowledged number empty ends
\* in the panic state, having called no handler and written no EOIR.
C4_NoHandlerFatal ==
    \A c \in Cores :
        (\E i \in DOMAIN events[c] : events[c][i] = Event("read", AckedId(c), "None")) =>
            /\ pc[c] = "panic"
            /\ ret[c] = "No handler registered for IRQ"
            /\ events[c] = << Event("ack", AckedId(c), ""),
                              Event("read", AckedId(c), "None") >>

C4_Witness ==
    \E c \in Cores :
        /\ pc[c] = "panic"
        /\ events[c] = << Event("ack", 40, ""), Event("read", 40, "None") >>

\* C5: a dispatch whose handler reports failure ends in the panic state; it
\* writes no EOIR and does not return.
C5_HandlerFailureFatal ==
    \A c \in Cores :
        (\E i \in DOMAIN events[c] : events[c][i].op = "handled" /\ events[c][i].arg = "Err") =>
            /\ pc[c] = "panic"
            /\ ret[c] = "Error handling IRQ"
            /\ \A i \in DOMAIN events[c] : events[c][i].op \notin {"eoi", "return"}

C5_Witness ==
    \E c \in Cores :
        /\ pc[c] = "panic"
        /\ events[c][Len(events[c])] = Event("handled", AckedId(c), "Err")

\* boot_core_init has just returned to init on the boot core.
BootCoreInitReturned == pc[BOOT_CORE_ID] = "gicc_pmr"

\* C6: after boot_core_init, the routing register of every shared interrupt
\* 32..num_irqs-1 holds the boot core's mask in its four bytes, and the
\* distributor is enabled.
C6_AllSharedRoutedToBootCore ==
    BootCoreInitReturned =>
        /\ \A r \in 0 .. (((num_irqs - 32) \div 4) - 1) :
              Get(ITARGETSR, r) = << BankedTargetMask(BOOT_CORE_ID), BankedTargetMask(BOOT_CORE_ID),
                                BankedTargetMask(BOOT_CORE_ID), BankedTargetMask(BOOT_CORE_ID) >>
        /\ GICD_CTLR = 1

\* C7: enable(n) for n in 32..MAX_IRQ_NUMBER reads and writes the shared
\* word (n>>5)-1 with the lock held, and the write changes bit n%32 of that
\* word and nothing else.
C7_EnableSharedOneBit ==
    [][\A c \in Cores :
          /\ pc[c] \in {"en_shared_get", "en_shared_set"} => shared_lock = c
          /\ (pc[c] = "en_shared_set" /\ pc'[c] # pc[c]) =>
                LET n == local[c].irq IN
                /\ n \in 32 .. MAX_IRQ_NUMBER
                /\ \A w \in 0 .. (NUM_SHARED_ISENABLER - 1), b \in 0 .. 31 :
                      (b \in Get(ISENABLER', w)) <=>
                          (b \in Get(ISENABLER, w) \/ (w = (n \div 32) - 1 /\ b = n % 32))
                /\ (n % 32) \in Get(ISENABLER', (n \div 32) - 1)
                /\ banked_ISENABLER' = banked_ISENABLER
      ]_vars

C7_Witness ==
    /\ Get(ISENABLER, 0) = {0, 8}
    /\ \E c \in Cores : pc[c] = "en_unlock" /\ local[c].irq = 40

\* C8: enable(n) for n in 0..31 takes the banked path, sets bit n of the
\* calling core's banked register, and changes neither another bit, nor
\* another core's banked register, nor a shared register, nor the lock.
C8_EnablePrivateOneBit ==
    [][\A c \in Cores :
          /\ (pc[c] = "idle" /\ pc'[c] \in {"en_banked_get", "en_lock"}
                /\ local'[c].irq \in 0 .. 31) => pc'[c] = "en_banked_get"
          /\ (pc[c] \in {"en_banked_get", "en_banked_set"} /\ pc'[c] # pc[c]) =>
                /\ local[c].irq \in 0 .. 31
                /\ shared_lock' = shared_lock
                /\ ISENABLER' = ISENABLER
                /\ \A d \in Cores \ {c} : banked_ISENABLER'[d] = banked_ISENABLER[d]
                /\ banked_ISENABLER'[c] \in
                      {banked_ISENABLER[c], banked_ISENABLER[c] \cup {local[c].irq}}
                /\ pc[c] = "en_banked_set" => local[c].irq \in banked_ISENABLER'[c]
      ]_vars

C8_Witness ==
    \E c, d \in Cores :
        /\ c # d
        /\ shared_lock = d
        /\ 31 \in banked_ISENABLER[c]
        /\ banked_ISENABLER[d] = {}
        /\ ISENABLER = ArrayNew(NUM_SHARED_ISENABLER, {})

\* C9: once the init phase has ended, no step changes a registry slot.
C9_RegistryFrozenAfterInit ==
    [][(~ is_init) => handler_table' = handler_table]_vars

\* Positions inside a critical section of the shared registers.
SharedCS == {"bci_slice", "bci_loop", "bci_ctlr", "bci_unlock",
             "en_shared_get", "en_shared_set", "en_unlock"}

\* C10: a core inside a critical section of the shared registers holds the
\* lock, at most one core is inside one, and the bit of every shared
\* enable that has been written is still set.
C10_SharedSerialized ==
    /\ \A c \in Cores : pc[c] \in SharedCS => shared_lock = c
    /\ Cardinality({c \in Cores : pc[c] \in SharedCS}) <= 1
    /\ \A e \in enabled :
          e[2] >= 32 => (e[2] % 32) \in Get(ISENABLER, (e[2] \div 32) - 1)

C10_Witness ==
    \E c, d \in Cores :
        /\ c # d
        /\ pc[c] = "en_lock"
        /\ pc[d] = "en_shared_set"
        /\ local[c].irq = 32
        /\ local[d].irq = 40

\* C11: when boot_core_init reaches its assertion outside the init phase,
\* the core panics there and the step changes no distributor register; a
\* panicked core takes no further step; and a routing register or the
\* global enable bit is written only by a core that is past the assertion.
C11_BootCoreInitOutsideInitFatal ==
    [][/\ \A c \in Cores :
             /\ (pc[c] = "bci_assert" /\ (~ is_init) /\ pc'[c] # pc[c]) =>
                   /\ pc'[c] = "panic"
                   /\ ret'[c] = "Only allowed during kernel init phase"
                   /\ gicd_vars' = gicd_vars
             /\ pc[c] = "panic" => pc'[c] = "panic"
       /\ (ITARGETSR' # ITARGETSR \/ GICD_CTLR' # GICD_CTLR) =>
             \E c \in Cores : /\ pc[c] \in {"bci_loop", "bci_ctlr"}
                              /\ (pc'[c] # pc[c] \/ local'[c] # local[c])
      ]_vars

C11_Witness ==
    /\ kstate = "runtime"
    /\ pc[BOOT_CORE_ID] = "panic"
    /\ ret[BOOT_CORE_ID] = "Only allowed during kernel init phase"
    /\ ITARGETSR = ArrayNew(NUM_SHARED_ITARGETSR, <<0, 0, 0, 0>>)
    /\ GICD_CTLR = 0

\* Positions inside boot_core_init.
BootCoreInitSteps == {"bci_assert", "bci_mask", "bci_lock", "bci_slice", "bci_loop",
                      "bci_ctlr", "bci_unlock"}

\* C12: init enters boot_core_init exactly when the calling core is the
\* boot core, and no other core is ever inside boot_core_init; on every
\* core the enable bit of the CPU interface is written when the priority
\* mask already holds 255, and that write is followed by the return of Ok.
C12_InitBootCoreOnlyPmrBeforeEnable ==
    [][\A c \in Cores :
          /\ pc[c] \in BootCoreInitSteps => c = BOOT_CORE_ID
          /\ (pc[c] = "idle" /\ pc'[c] \in {"bci_assert", "gicc_pmr"}) =>
                (pc'[c] = "bci_assert" <=> c = BOOT_CORE_ID)
          /\ GICC_CTLR'[c] # GICC_CTLR[c] =>
                /\ pc[c] = "gicc_enable"
                /\ GICC_PMR[c] = 255
                /\ GICC_PMR'[c] = 255
                /\ GICC_CTLR'[c] = 1
                /\ pc'[c] = "idle"
                /\ ret'[c] = "Ok"
          /\ GICC_PMR'[c] # GICC_PMR[c] => GICC_PMR'[c] = 255 /\ GICC_CTLR[c] = 0
          /\ GICC_CTLR[c] = 1 => GICC_PMR[c] = 255
      ]_vars

C12_Witness ==
    /\ \A c \in Cores : pc[c] = "idle" /\ ret[c] = "Ok" /\ GICC_CTLR[c] = 1 /\ GICC_PMR[c] = 255
    /\ GICD_CTLR = 1

\* C13: the i-th call of next() returns the i-th lowest one bit of the mask
\* the iterator was made with, for i up to the number of one bits, and None
\* after that; the bits not yet returned are the ones left in the mask.
C13_PendingAscendingOnce ==
    /\ \A i \in DOMAIN yields :
          yields[i] = (IF i <= Cardinality(pending_new)
                       THEN SomeNum(NthSmallest(pending_new, i))
                       ELSE None)
    /\ bitmask = pending_new \ {yields[i].val : i \in {j \in DOMAIN yields : yields[j].some}}

C13_Witness ==
    /\ pending_new = {1, 3}
    /\ yields = << SomeNum(1), SomeNum(3), None >>

\* Positions of the lines of console output out that carry number n.
LinesFor(out, n) == {i \in DOMAIN out : Len(out[i]) = 2 /\ out[i][1] = n}

\* C14: what print_handler writes has exactly one line for every number
\* that is registered when it runs, carrying the number and the registered
\* name, and no line for a number that is not registered.
C14_PrintListsEveryRegistered ==
    [][console' # console =>
          \A n \in 0 .. MAX_IRQ_NUMBER :
              IF Get(handler_table, n).some
              THEN /\ Cardinality(LinesFor(console', n)) = 1
                   /\ \A i \in LinesFor(console', n) :
                         console'[i] = HandlerLine(n, Get(handler_table, n).name)
              ELSE LinesFor(console', n) = {}
      ]_vars

\* C15: register_handler or enable of the vendor controller, called with a
\* Local number, ends in the panic state: it does not return, its result is
\* not success, and the step changes neither the peripheral registry nor
\* the enabled peripheral numbers; the panicked core stays halted.
C15_LocalNeverSilentNoOp ==
    [][\A c \in Cores :
          /\ (pc[c] \in {"v_reg_match", "v_en_match"} /\ local[c].tag = "Local"
                /\ pc'[c] # pc[c]) =>
                /\ pc'[c] = "panic"
                /\ ret'[c] \notin {"Ok", "-"}
                /\ periph_table' = periph_table
                /\ periph_enabled' = periph_enabled
          /\ (pc[c] = "panic" /\ local[c].tag = "Local") => pc'[c] = "panic"
      ]_vars

C15_Witness ==
    \E c, d \in Cores :
        /\ pc[c] = "panic" /\ local[c].tag = "Local" /\ local[c].name # ""
        /\ pc[d] = "panic" /\ local[d].tag = "Local" /\ local[d].name = ""
        /\ periph_table = ArrayNew(MAX_PERIPHERAL_IRQ_NUMBER + 1, None)
        /\ periph_enabled = {}

\* C16: register_handler of the vendor controller, called with a Local
\* number, returns an error value to its caller, and the caller goes on.
C16_LocalRegisterReturnsError ==
    [][\A c \in Cores :
          (pc[c] = "v_reg_match" /\ local[c].tag = "Local" /\ pc'[c] # pc[c]) =>
              /\ pc'[c] = "idle"
              /\ ret'[c] \notin {"Ok", "-"}
      ]_vars

\* Positions inside the closure of handler_table.write.
WriteCS == {"reg_check", "reg_store"}

\* Indices of the finished registrations for number n with result res.
Registrations(n, res) == {i \in DOMAIN reg_log : reg_log[i].number = n /\ reg_log[i].res = res}

\* C17: at most one core is inside the write closure and it is the one
\* that holds the write access; of the registrations for one number at most
\* one has succeeded, none has failed before one succeeded, and the slot
\* holds the descriptor of the one that succeeded.
C17_RegistrationSerialized ==
    /\ Cardinality({c \in Cores : pc[c] \in WriteCS}) <= 1
    /\ \A c \in Cores : pc[c] \in WriteCS <=> table_writer = c
    /\ \A n \in RegisterIrqs :
          /\ Cardinality(Registrations(n, "Ok")) <= 1
          /\ Registrations(n, "Err") # {} => Registrations(n, "Ok") # {}
          /\ \A i \in Registrations(n, "Ok") :
                Get(handler_table, n) = Some([number |-> n, name |-> reg_log[i].name,
                                              handler |-> reg_log[i].handler])

C17_Witness ==
    \E c, d \in Cores :
        /\ is_init
        /\ pc[c] = "reg_write"
        /\ pc[d] = "reg_store"
        /\ local[c].irq = local[d].irq
        /\ local[c].name # local[d].name

\* Indices of the descriptors of the layout whose range contains the
\* address looked up.
Hits == {k \in DOMAIN layout.inner :
            layout.inner[k].start <= virt_addr /\ virt_addr <= layout.inner[k].end}

FirstHit == CHOOSE k \in Hits : \A j \in Hits : k <= j

\* C18: the result of virt_addr_properties is the error 'Address out of
\* range' for an address above max_virt_addr_inclusive; otherwise it is
\* made from the first descriptor whose range contains the address (the
\* address itself for Identity, offset + (address - range start) for
\* Offset, with the descriptor's attributes), or, if there is none, the
\* address itself with cacheable DRAM, read-write, execute-never.
C18_VirtAddrProperties ==
    props # NoProps =>
        IF virt_addr > layout.max_virt_addr_inclusive
        THEN props = [done |-> TRUE, ok |-> FALSE, err |-> "Address out of range"]
        ELSE IF Hits = {}
             THEN props = [done |-> TRUE, ok |-> TRUE, output_addr |-> virt_addr,
                           attribute_fields |-> [mem_attributes |-> "CacheableDRAM",
                                                 acc_perms |-> "ReadWrite",
                                                 execute_never |-> TRUE]]
             ELSE LET d == layout.inner[FirstHit] IN
                  /\ props.ok
                  /\ props.attribute_fields = d.attribute_fields
                  /\ props.output_addr =
                        (IF d.physical_range_translation = Identity
                         THEN virt_addr
                         ELSE d.physical_range_translation.a + (virt_addr - d.start))

C18_Witness ==
    /\ props # NoProps
    /\ virt_addr <= layout.max_virt_addr_inclusive
    /\ Cardinality(Hits) = 2
    /\ layout.inner[FirstHit].physical_range_translation = Offset(20)
    /\ props.output_addr = 25

\* Positions inside handle_pending_irqs.
DispatchSteps == {"hp_guard", "hp_read", "hp_handle", "hp_eoi"}

IsValidId(id) == id <= MAX_IRQ_NUMBER

\* s without its last element.
Front(s) == SubSeq(s, 1, Len(s) - 1)

\* C19: on a core that has not panicked, the ids written to EOIR are, in
\* order, the acknowledged ids <= MAX_IRQ_NUMBER: all of them when the core
\* is outside handle_pending_irqs, all but the one being handled when it is
\* inside.
C19_RunToCompletion ==
    \A c \in Cores :
        pc[c] # "panic" =>
            IF pc[c] \in DispatchSteps
            THEN eois[c] = SelectSeq(Front(acks[c]), IsValidId)
            ELSE eois[c] = SelectSeq(acks[c], IsValidId)

C19_Witness ==
    \E c \in Cores :
        /\ pc[c] = "idle"
        /\ acks[c] = << 40, MAX_IRQ_NUMBER >>
        /\ eois[c] = << 40, MAX_IRQ_NUMBER >>

\* C20: a core about to index the handler table (in register_handler or in
\* handle_pending_irqs, after the guard) holds a number in 0..MAX_IRQ_NUMBER;
\* a core about to index the shared enable registers holds a number whose
\* index (n>>5)-1 is one of the 31 entries; (n>>5)-1 is one of them for
\* every n in 32..MAX_IRQ_NUMBER; and no core has stopped on an index out of
\* bounds.
C20_IndexSafety ==
    /\ handler_table.len = MAX_IRQ_NUMBER + 1
    /\ ISENABLER.len = NUM_SHARED_ISENABLER
    /\ \A n \in 32 .. MAX_IRQ_NUMBER : ((n \div 32) - 1) \in 0 .. (NUM_SHARED_ISENABLER - 1)
    /\ \A c \in Cores :
          /\ pc[c] \in {"reg_check", "reg_store", "hp_read"} =>
                local[c].irq \in 0 .. MAX_IRQ_NUMBER
          /\ pc[c] \in {"en_shared_get", "en_shared_set"} =>
                ((local[c].irq \div 32) - 1) \in 0 .. (NUM_SHARED_ISENABLER - 1)
          /\ ret[c] # "index out of bounds"

C20_Witness ==
    \E c, d \in Cores :
        /\ pc[c] = "hp_read" /\ local[c].irq = MAX_IRQ_NUMBER
        /\ pc[d] = "en_shared_set" /\ local[d].irq = MAX_IRQ_NUMBER

\* Positions inside register_handler.
RegisterSteps == {"reg_write", "reg_check", "reg_store"}

\* C21: a step that changes the registry is the store of a register_handler
\* call that returns Ok, and it changes one slot, from empty to occupied; so
\* no step of enable, handle_pending_irqs or print_handler changes a slot.
\* No step of register_handler changes a distributor or CPU-interface
\* register.
C21_RegistryFrame ==
    [][/\ handler_table' # handler_table =>
             \E c \in Cores :
                 /\ pc[c] = "reg_store"
                 /\ pc'[c] = "idle"
                 /\ ret'[c] = "Ok"
                 /\ Get(handler_table, local[c].irq) = None
                 /\ Get(handler_table', local[c].irq).some
                 /\ \A n \in DOMAIN handler_table.elems \cup DOMAIN handler_table'.elems :
                       n # local[c].irq => Get(handler_table', n) = Get(handler_table, n)
                 /\ handler_table'.len = handler_table.len
       /\ console' # console => handler_table' = handler_table
       /\ \A c \in Cores :
             /\ (pc[c] \in RegisterSteps \/ pc'[c] \in RegisterSteps) /\ pc'[c] # pc[c] =>
                   /\ gicd_vars' = gicd_vars
                   /\ gicc_vars' = gicc_vars
             /\ (pc[c] \notin RegisterSteps /\ pc'[c] \notin RegisterSteps
                    /\ (pc'[c] # pc[c] \/ local'[c] # local[c])) =>
                   handler_table' = handler_table
      ]_vars

C21_Witness ==
    /\ Get(handler_table, 40).some
    /\ console = << HeaderLine, HandlerLine(40, Get(handler_table, 40).name) >>

\* C22: the banked enable register of a core holds exactly the bits of the
\* private numbers that enable calls on that core have set, and every id a
\* core has written to EOIR is an id that core has read from IAR.
C22_PerCoreRegisters ==
    \A c \in Cores :
        /\ banked_ISENABLER[c] = {n \in 0 .. 31 : << c, n >> \in enabled}
        /\ \A i \in DOMAIN eois[c] : \E j \in DOMAIN acks[c] : acks[c][j] = eois[c][i]
        /\ Len(eois[c]) <= Len(acks[c])

C22_Witness ==
    \E c, d \in Cores :
        /\ c # d
        /\ pc[c] = "en_banked_set" /\ local[c].irq = 31
        /\ pc[d] = "hp_eoi" /\ acks[d] = << 40 >>
        /\ acks[c] = << >>

\* The shared numbers some enable call has set the bit of.
EnabledShared == {e[2] : e \in {x \in enabled : x[2] >= 32}}

\* The (word, bit) positions that are set in the shared enable registers.
SharedBitsSet ==
    {p \in (0 .. (NUM_SHARED_ISENABLER - 1)) \X (0 .. 31) : p[2] \in Get(ISENABLER, p[1])}

\* C23: no step clears an enable bit; the write of an enable call whose bit
\* is already set changes no register; the word index and the bit of a
\* number determine the number, so two numbers never share a position, and
\* the shared registers hold one bit for every shared number enabled.
C23_EnableMonotoneIdempotent ==
    [][/\ \A w \in 0 .. (NUM_SHARED_ISENABLER - 1) : Get(ISENABLER, w) \subseteq Get(ISENABLER', w)
       /\ \A c \in Cores : banked_ISENABLER[c] \subseteq banked_ISENABLER'[c]
       /\ \A c \in Cores :
             LET n == local[c].irq IN
             /\ (pc[c] = "en_shared_set" /\ pc'[c] # pc[c]
                    /\ (n % 32) \in Get(ISENABLER, (n \div 32) - 1)) =>
                   (ISENABLER' = ISENABLER /\ banked_ISENABLER' = banked_ISENABLER)
             /\ (pc[c] = "en_banked_set" /\ pc'[c] # pc[c] /\ n \in banked_ISENABLER[c]) =>
                   (ISENABLER' = ISENABLER /\ banked_ISENABLER' = banked_ISENABLER)
       /\ \A n \in 0 .. MAX_IRQ_NUMBER :
             {(32 * enable_reg_index(n)) + b : b \in enable_bit(n)} = {n}
       /\ SharedBitsSet' = {<< (n \div 32) - 1, n % 32 >> : n \in EnabledShared'}
       /\ Cardinality(SharedBitsSet') = Cardinality(EnabledShared')
       /\ \A c \in Cores :
             Cardinality(banked_ISENABLER'[c]) =
                 Cardinality({n \in 0 .. 31 : << c, n >> \in enabled'})
      ]_vars

C23_Witness ==
    /\ calls = 2
    /\ \A c \in Cores : pc[c] = "idle"
    /\ \E c \in Cores : enabled = {<< c, 40 >>}
    /\ Get(ISENABLER, 0) = {8}

\* Positions of boot_core_init inside the lock closure.
BootCoreInitCS == {"bci_slice", "bci_loop", "bci_ctlr", "bci_unlock"}

\* Every routing register a call of boot_core_init writes holds the mask.
RoutingWritten(mask) ==
    \A r \in 0 .. (spi_itargetsr_max_index - 1) :
        Get(ITARGETSR, r) = << mask, mask, mask, mask >>

\* C24: the global enable bit is written by a core at the end of the
\* loop, when every routing register of the call already holds the mask;
\* routing registers are written only inside the loop; from the first
\* routing write to the enable write the core holds the shared-register
\* lock without releasing it; so whenever the distributor is enabled and
\* the boot core is outside the closure, the routing registers are written.
C24_EnableAfterRoutingInOneHold ==
    [][/\ GICD_CTLR' # GICD_CTLR =>
             \E c \in Cores :
                 /\ pc[c] = "bci_ctlr" /\ pc'[c] = "bci_unlock"
                 /\ local[c].i = local[c].end
                 /\ local[c].end = spi_itargetsr_max_index
                 /\ RoutingWritten(local[c].mask)
                 /\ ITARGETSR' = ITARGETSR
                 /\ GICD_CTLR' = 1
       /\ ITARGETSR' # ITARGETSR =>
             \E c \in Cores :
                 /\ pc[c] = "bci_loop" /\ pc'[c] = "bci_loop"
                 /\ local'[c].i = local[c].i + 1
                 /\ \A r \in 0 .. (local[c].i - 1) :
                       Get(ITARGETSR', r) = << local[c].mask, local[c].mask,
                                               local[c].mask, local[c].mask >>
                 /\ Get(ITARGETSR', local[c].i) = << local[c].mask, local[c].mask,
                                                     local[c].mask, local[c].mask >>
       /\ \A c \in Cores :
             /\ pc[c] \in BootCoreInitCS => shared_lock = c
             /\ (pc[c] \in BootCoreInitCS /\ pc[c] # "bci_unlock") =>
                   (shared_lock' = c /\ pc'[c] \in (BootCoreInitCS \cup {"panic"}))
             /\ (pc[c] = "bci_unlock" /\ pc'[c] # pc[c]) =>
                   (shared_lock' = NoCore /\ GICD_CTLR' = 1 /\ GICD_CTLR = 1)
       /\ (GICD_CTLR' = 1 /\ shared_lock' # BOOT_CORE_ID) =>
             RoutingWritten(BankedTargetMask(BOOT_CORE_ID))'
      ]_vars

C24_Witness ==
    /\ pc[BOOT_CORE_ID] = "bci_unlock"
    /\ GICD_CTLR = 1
    /\ RoutingWritten(BankedTargetMask(BOOT_CORE_ID))
    /\ \E d \in Cores : d # BOOT_CORE_ID /\ pc[d] = "en_lock" /\ local[d].irq = 40

====
